---- MODULE Spec2Model ----
(***************************************************************************)
(* A model of sqltosh (src/sqltosh/sqltosh.py): the prompt loop, the       *)
(* statement dispatcher `execute`, the `select` handler with its column    *)
(* scan, the directory listing `get_files`, the value formatters and the   *)
(* sorter.  Strings are TLA+ strings; the operating system (which paths    *)
(* exist, what scandir/stat/getpwuid answer) is an oracle drawn afresh for *)
(* every statement.                                                        *)
(***************************************************************************)
EXTENDS Integers, Sequences, FiniteSets, TLC

VARIABLES pc, query, nlines, executed, stmt, tokens, out, os, fslog, files, handler, exc

vars == <<pc, query, nlines, executed, stmt, tokens, out, os, fslog, files, handler, exc>>

(***************************************************************************)
(* Bounds of the model.                                                    *)
(***************************************************************************)
\* physical input lines that make up one statement
MaxLines == 2
\* entries of a listed directory
MaxEntries == 2

(***************************************************************************)
(* Python strings: code points, case conversion, whitespace splitting.     *)
(* Operators that walk a string name it once (Only) and walk it by index.  *)
(***************************************************************************)
\* the value of an expression that is evaluated once and then named
Only(S) == CHOOSE x \in S : TRUE

\* the printable ASCII characters in code-point order, in two runs: the code
\* points from AsciiBase up to "_", and those from "a" on
AsciiLow == " !\"#$%&'()*+,-./0123456789:;<=>?@ABCDEFGHIJKLMNOPQRSTUVWXYZ[\\]^_"

AsciiHigh == "abcdefghijklmnopqrstuvwxyz{|}~"

\* code point of the first character of AsciiLow
AsciiBase == 32

\* code point of the first character of AsciiHigh
AsciiHighBase == 97

UpperLetters == "ABCDEFGHIJKLMNOPQRSTUVWXYZ"

LowerLetters == "abcdefghijklmnopqrstuvwxyz"

Digits == "0123456789"

CharAt(s, i) == SubSeq(s, i, i)

\* 0 when c is not in the table
IndexIn(table, c) ==
  Only({ IF \E i \in 1..Len(table) : CharAt(table, i) = ch
         THEN CHOOSE i \in 1..Len(table) : CharAt(table, i) = ch
         ELSE 0 : ch \in {c} })

\* ord(c)
Ord(c) ==
  Only({ IF k > 0 THEN AsciiBase - 1 + k ELSE AsciiHighBase - 1 + IndexIn(AsciiHigh, c)
         : k \in {IndexIn(AsciiLow, c)} })

LowerChar(c) ==
  Only({ IF k > 0 THEN CharAt(LowerLetters, k) ELSE c : k \in {IndexIn(UpperLetters, c)} })

UpperChar(c) ==
  Only({ IF k > 0 THEN CharAt(UpperLetters, k) ELSE c : k \in {IndexIn(LowerLetters, c)} })

RECURSIVE LowerFrom(_, _)
LowerFrom(s, i) == IF i > Len(s) THEN "" ELSE LowerChar(CharAt(s, i)) \o LowerFrom(s, i + 1)

\* str.lower()
Lower(s) == Only({ LowerFrom(v, 1) : v \in {s} })

RECURSIVE UpperFrom(_, _)
UpperFrom(s, i) == IF i > Len(s) THEN "" ELSE UpperChar(CharAt(s, i)) \o UpperFrom(s, i + 1)

\* str.upper()
Upper(s) == Only({ UpperFrom(v, 1) : v \in {s} })

\* re.search('<c>$', s) for a single literal character c, on a string without newlines
EndsWith(s, c) == Only({ Len(v) > 0 /\ CharAt(v, Len(v)) = c : v \in {s} })

\* s[:-1]
DropLast(s) == Only({ IF Len(v) = 0 THEN v ELSE SubSeq(v, 1, Len(v) - 1) : v \in {s} })

\* lst[n:]
Drop(lst, n) == Only({ IF n >= Len(v) THEN <<>> ELSE SubSeq(v, n + 1, Len(v)) : v \in {lst} })

\* the positions where a token of s starts: a non-blank at the start or after a blank
TokenStarts(s) ==
  { i \in 1..Len(s) : CharAt(s, i) # " " /\ (i = 1 \/ CharAt(s, i - 1) = " ") }

\* the token of s that starts at i runs up to the next blank or the end
TokenAt(s, i) ==
  SubSeq(s, i, CHOOSE j \in i..Len(s) :
                 /\ \A k \in i..j : CharAt(s, k) # " "
                 /\ (j = Len(s) \/ CharAt(s, j + 1) = " "))

SplitValue(s) ==
  Only({ [n \in 1..Cardinality(starts) |->
            TokenAt(s, CHOOSE i \in starts : Cardinality({j \in starts : j < i}) = n - 1)]
         : starts \in {TokenStarts(s)} })

\* str.split(): the maximal runs of non-blanks, in order
Split(s) == Only({ SplitValue(v) : v \in {s} })

\* the first position where a and b differ, or 0 when one is a prefix of the other
FirstDiff(a, b) ==
  Only({ IF D = {} THEN 0 ELSE CHOOSE i \in D : \A j \in D : i <= j
         : D \in {{ i \in 1..Len(a) : i <= Len(b) /\ CharAt(a, i) # CharAt(b, i) }} })

StrLessValue(a, b) ==
  Only({ IF d = 0 THEN Len(a) < Len(b) ELSE Ord(CharAt(a, d)) < Ord(CharAt(b, d))
         : d \in {FirstDiff(a, b)} })

\* a < b on Python str: lexicographic by code point
StrLess(a, b) == Only({ StrLessValue(p[1], p[2]) : p \in {<<a, b>>} })

RECURSIVE ToStr(_)
\* str(n) for n >= 0
ToStr(n) ==
  Only({ IF v < 10 THEN CharAt(Digits, v + 1) ELSE ToStr(v \div 10) \o CharAt(Digits, (v % 10) + 1)
         : v \in {n} })

\* '%02d' % n
Pad2(n) == Only({ IF v < 10 THEN "0" \o ToStr(v) ELSE ToStr(v) : v \in {n} })

RECURSIVE Oct(_)
\* the digits of oct(n), without the '0o' prefix
Oct(n) == Only({ IF v < 8 THEN ToStr(v) ELSE Oct(v \div 8) \o ToStr(v % 8) : v \in {n} })

(***************************************************************************)
(* Value formatters.                                                       *)
(***************************************************************************)
permissions ==
  [d \in {"0", "1", "2", "3", "4", "5", "6", "7"} |->
     CASE d = "7" -> "rwx" [] d = "6" -> "rw-" [] d = "5" -> "r-x" [] d = "4" -> "r--"
       [] d = "3" -> "-wx" [] d = "2" -> "-w-" [] d = "1" -> "--x" [] d = "0" -> "---"]

RECURSIVE PermsFrom(_, _)
\* the `for n in mode` loop, from position i on
PermsFrom(mode, i) ==
  IF i > Len(mode) THEN "" ELSE permissions[CharAt(mode, i)] \o PermsFrom(mode, i + 1)

convert_unix_permissions(mode) == Only({ PermsFrom(v, 1) : v \in {mode} })

\* str(oct(st_mode))[-3:]
ModeLast3(st_mode) ==
  LET o == "0o" \o Oct(st_mode) IN SubSeq(o, Len(o) - 2, Len(o))

size_name == <<"B", "KB", "MB", "GB", "TB", "PB", "EB", "ZB", "YB">>

SizeBase == 1024

RECURSIVE Pow1024(_)
Pow1024(i) == IF i = 0 THEN 1 ELSE SizeBase * Pow1024(i - 1)

RECURSIVE Log1024(_)
\* int(math.floor(math.log(size_bytes, 1024))), size_bytes >= 1
Log1024(n) == IF n < SizeBase THEN 0 ELSE 1 + Log1024(n \div SizeBase)

\* '%s' of a float rounded to 2 places, given in hundredths
FloatStr(h) ==
  ToStr(h \div 100) \o "." \o
    (IF h % 10 = 0 THEN ToStr((h % 100) \div 10) ELSE Pad2(h % 100))

convert_size(size_bytes) ==
  IF size_bytes = 0 THEN "0B"
  ELSE LET i == Log1024(size_bytes)
           p == Pow1024(i)
           s == (size_bytes \div p) * 100 + ((size_bytes % p) * 200 + p) \div (2 * p)
       IN FloatStr(s) \o " " \o size_name[i + 1]

SecondsPerDay == 86400

\* days from 0000-03-01 to 1970-01-01
EpochShift == 719468

DaysPerEra == 146097

\* time.strftime('%Y-%m-%d %H:%M:%S', time.localtime(epoch)), local time at utcoff
convert_epoch(epoch, utcoff) ==
  LET t    == epoch + utcoff
      days == t \div SecondsPerDay
      sod  == t % SecondsPerDay
      z    == days + EpochShift
      era  == z \div DaysPerEra
      doe  == z - era * DaysPerEra
      yoe  == (doe - doe \div 1460 + doe \div 36524 - doe \div 146096) \div 365
      doy  == doe - (365 * yoe + yoe \div 4 - yoe \div 100)
      mp   == (5 * doy + 2) \div 153
      d    == doy - (153 * mp + 2) \div 5 + 1
      m    == IF mp < 10 THEN mp + 3 ELSE mp - 9
      y    == yoe + era * 400 + (IF m <= 2 THEN 1 ELSE 0)
  IN ToStr(y) \o "-" \o Pad2(m) \o "-" \o Pad2(d) \o " " \o
     Pad2(sod \div 3600) \o ":" \o Pad2((sod % 3600) \div 60) \o ":" \o Pad2(sod % 60)

(***************************************************************************)
(* Output: what the session writes, one item per console.print / print.    *)
(***************************************************************************)
Line(t) == [kind |-> "line", text |-> t, title |-> "", header |-> <<>>, rows |-> <<>>, styles |-> <<>>]

TableItem(title, header, rows, styles) ==
  [kind |-> "table", text |-> "", title |-> title, header |-> header, rows |-> rows, styles |-> styles]

InvalidStatementMsg(tok) ==
  "ERROR 1064 (42000) at line 0: You have an error in your SQL syntax; (Hint): invalid statement: " \o tok

UnknownColumnMsg(q) ==
  "ERROR 1054 (42S22) at line 0: Unknown column '" \o q \o "' in 'field list'"

MissingPathMsg ==
  "ERROR 1064 (42000) at line 0: You have an error in your SQL syntax; (Hint): missing directory / path"

PathNotFoundMsg(directory) ==
  "ERROR 1146 (42S02) at line 0: Directory " \o directory \o " doesn't exist"

RowsInSetMsg(n) == ToStr(n) \o " rows in set (0.00 sec)"

\* str(e) of the IndexError raised by indexing an empty list
IndexErrorMsg == "list index out of range"

\* str(e) of the TypeError raised by sorted(False)
BoolNotIterableMsg == "'bool' object is not iterable"

NotADirectoryMsg(p) == "[Errno 20] Not a directory: '" \o p \o "'"

PermissionDeniedMsg(p) == "[Errno 13] Permission denied: '" \o p \o "'"

(***************************************************************************)
(* Prompt.__init__: the fixed schema, the statement and command tables.    *)
(***************************************************************************)
columns ==
  <<"name", "type", "created_on", "last_modified", "last_accessed",
    "file_size", "permissions", "owner", "group">>

statements == {"select", "insert", "delete", "update"}

commands ==
  <<<<"help", "Displays this help message">>,
    <<"exit", "Exits the session, cleaning up any temporary data">>,
    <<"clear", "Clears the screen">>>>

CommandKeys == {commands[i][1] : i \in 1..Len(commands)}

InSeq(x, seq) == \E i \in 1..Len(seq) : seq[i] = x

greet ==
  <<Line(""), Line("Welcome to the sqltosh monitor :desktop_computer: . Commands end with ;."),
    Line("Server version: 1.0.0a SqltoSH Server (MIT)"),
    Line(""), Line(""),
    Line("Type 'help;' for help."), Line("")>>

(***************************************************************************)
(* The operating system as seen by one statement.                          *)
(***************************************************************************)
\* what scandir yields and what stat/getpwuid/getgrgid answer for each entry:
\* stat is "ok", "ENOENT" (FileNotFoundError) or "EACCES" (PermissionError)
DirEntries ==
  { [name |-> "a", dtype |-> "file", stat |-> "ok", st_size |-> 1536, st_mode |-> 33188,
     st_ctime |-> 1700000000, st_mtime |-> 1700000000, st_atime |-> 1709251199,
     pw_known |-> TRUE, pw_name |-> "root", gr_known |-> TRUE, gr_name |-> "root"],
    [name |-> "B", dtype |-> "dir", stat |-> "ok", st_size |-> 4096, st_mode |-> 16877,
     st_ctime |-> 951782400, st_mtime |-> 1700000000, st_atime |-> 1700000000,
     pw_known |-> FALSE, pw_name |-> "", gr_known |-> TRUE, gr_name |-> "staff"],
    [name |-> "z0", dtype |-> "file", stat |-> "ok", st_size |-> 0, st_mode |-> 33261,
     st_ctime |-> 1700000000, st_mtime |-> 1700000000, st_atime |-> 1700000000,
     pw_known |-> TRUE, pw_name |-> "root", gr_known |-> FALSE, gr_name |-> ""],
    [name |-> "c", dtype |-> "other", stat |-> "ENOENT", st_size |-> 0, st_mode |-> 0,
     st_ctime |-> 0, st_mtime |-> 0, st_atime |-> 0,
     pw_known |-> FALSE, pw_name |-> "", gr_known |-> FALSE, gr_name |-> ""],
    [name |-> "e", dtype |-> "file", stat |-> "EACCES", st_size |-> 0, st_mode |-> 0,
     st_ctime |-> 0, st_mtime |-> 0, st_atime |-> 0,
     pw_known |-> FALSE, pw_name |-> "", gr_known |-> FALSE, gr_name |-> ""] }

\* the offset of local time from UTC, in seconds, that the session runs under
UtcOffsets == {19800}

\* scandir order is arbitrary: every sequence of distinct entries
Listings ==
  UNION { { l \in [1..n -> DirEntries] : \A i, j \in 1..n : i # j => l[i].name # l[j].name }
          : n \in 0..MaxEntries }

World(kind, entries, utcoff) == [kind |-> kind, entries |-> entries, utcoff |-> utcoff]

\* the statement touches no path
NoWorld == World("none", <<>>, 0)

\* the path is absent
MissingWorld == World("missing", <<>>, 0)

Worlds ==
  {MissingWorld, World("notdir", <<>>, 0), World("noread", <<>>, 0)}
    \cup {World("dir", l, tz) : l \in Listings, tz \in UtcOffsets}

(***************************************************************************)
(* Prompt.get_files and Prompt.sort_data.                                  *)
(***************************************************************************)
\* os.path.join(directory, name), the path DirEntry.stat() reports
EntryPath(directory, name) ==
  IF EndsWith(directory, "/") THEN directory \o name ELSE directory \o "/" \o name

EntryType(e) ==
  IF e.dtype = "file" THEN ":spiral_notepad:  file"
  ELSE IF e.dtype = "dir" THEN ":open_file_folder: directory"
  ELSE ":question: Unknown"

\* the dict appended when entry.stat() succeeds
StatRecord(e, utcoff) ==
  [name |-> e.name,
   type |-> EntryType(e),
   created_on |-> convert_epoch(e.st_ctime, utcoff),
   last_modified |-> convert_epoch(e.st_mtime, utcoff),
   last_accessed |-> convert_epoch(e.st_atime, utcoff),
   file_size |-> convert_size(e.st_size),
   permissions |-> convert_unix_permissions(ModeLast3(e.st_mode)),
   owner |-> IF e.pw_known THEN e.pw_name ELSE "Unknown",
   group |-> IF e.gr_known THEN e.gr_name ELSE "Unknown"]

\* the dict appended in the `except FileNotFoundError` branch
UnknownRecord(e) ==
  [name |-> e.name,
   type |-> EntryType(e),
   created_on |-> "Unknown",
   last_modified |-> "Unknown",
   last_accessed |-> "Unknown",
   file_size |-> "Unknown",
   permissions |-> "Unknown",
   owner |-> "Unknown",
   group |-> "Unknown"]

\* the result of a call: ret is "list", "False", "None" or "raise" (then exc is str(e))
Result(ret, fs, o, log, e) == [ret |-> ret, files |-> fs, out |-> o, fslog |-> log, exc |-> e]

\* whether the `except` clause of the per-entry try catches a failed stat
StatErrorCaught(err) == err = "ENOENT"

RECURSIVE ScanEntries(_, _, _, _, _)
\* the `for entry in dir_contents` loop, from entry i on
ScanEntries(directory, w, i, acc, log) ==
  IF i > Len(w.entries) THEN Result("list", acc, <<>>, log, "")
  ELSE LET e    == w.entries[i]
           log2 == Append(log, <<"stat", EntryPath(directory, e.name)>>)
       IN IF e.stat = "ok"
          THEN ScanEntries(directory, w, i + 1, Append(acc, StatRecord(e, w.utcoff)), log2)
          ELSE IF StatErrorCaught(e.stat)
          THEN ScanEntries(directory, w, i + 1, Append(acc, UnknownRecord(e)), log2)
          ELSE Result("raise", <<>>, <<>>, log2, PermissionDeniedMsg(EntryPath(directory, e.name)))

\* str(e) of the FileNotFoundError raised by scandir
NoSuchFileMsg(p) == "[Errno 2] No such file or directory: '" \o p \o "'"

\* get_files without the path.exists check of lines 236-238
get_files_unchecked(directory, w) ==
  LET log2 == <<<<"scandir", directory>>>>
  IN IF w.kind = "dir" THEN ScanEntries(directory, w, 1, <<>>, log2)
     ELSE IF w.kind = "notdir" THEN Result("raise", <<>>, <<>>, log2, NotADirectoryMsg(directory))
     ELSE IF w.kind = "noread" THEN Result("raise", <<>>, <<>>, log2, PermissionDeniedMsg(directory))
     ELSE Result("raise", <<>>, <<>>, log2, NoSuchFileMsg(directory))

get_files(directory, w) ==
  LET log1 == <<<<"exists", directory>>>>
      log2 == Append(log1, <<"scandir", directory>>)
  IN IF w.kind \notin {"notdir", "noread", "dir"}
     THEN Result("False", <<>>, <<Line(PathNotFoundMsg(directory))>>, log1, "")
     ELSE IF w.kind = "notdir" THEN Result("raise", <<>>, <<>>, log2, NotADirectoryMsg(directory))
     ELSE IF w.kind = "noread" THEN Result("raise", <<>>, <<>>, log2, PermissionDeniedMsg(directory))
     ELSE ScanEntries(directory, w, 1, <<>>, log2)

\* the place of data[i] in a stable sort by key: after every element that sorts
\* before it and after the earlier ones that compare equal to it
SortRank(data, i, key, desc) ==
  1 + Cardinality({ j \in 1..Len(data) :
         \/ IF desc THEN StrLess(data[i][key], data[j][key])
                    ELSE StrLess(data[j][key], data[i][key])
         \/ data[j][key] = data[i][key] /\ j < i })

\* sorted(data, key=itemgetter(key), reverse=True if desc else False)
sort_data(data, key, desc) ==
  [r \in 1..Len(data) |-> data[CHOOSE i \in 1..Len(data) : SortRank(data, i, key, desc) = r]]

(***************************************************************************)
(* Prompt.select.                                                          *)
(***************************************************************************)
\* if re.search(',$', q): q = q[:-1]
StripComma(q) == IF EndsWith(q, ",") THEN DropLast(q) ELSE q

\* sub in s
Contains(s, sub) ==
  Only({ \E i \in 0..(Len(p[1]) - Len(p[2])) : SubSeq(p[1], i + 1, i + Len(p[2])) = p[2]
         : p \in {<<s, sub>>} })

RECURSIVE ScanColumns_nocase(_, _, _)
\* the column scan with a case-insensitive membership test (q.lower() in self.columns)
ScanColumns_nocase(q, counter, cols) ==
  IF counter > Len(q)
  THEN [status |-> "end", columns |-> cols, rest |-> q, bad |-> ""]
  ELSE IF Lower(q[counter]) = "from"
  THEN [status |-> "break", columns |-> cols, rest |-> Drop(q, counter), bad |-> ""]
  ELSE LET tok == StripComma(q[counter])
       IN IF ~InSeq(Lower(tok), columns)
          THEN [status |-> "unknown", columns |-> cols, rest |-> q, bad |-> tok]
          ELSE ScanColumns_nocase(q, counter + 1, Append(cols, Lower(tok)))

RECURSIVE ScanColumns(_, _, _)
\* the `for counter, q in enumerate(query, start=1)` loop, from position counter on
ScanColumns(q, counter, cols) ==
  IF counter > Len(q)
  THEN [status |-> "end", columns |-> cols, rest |-> q, bad |-> ""]
  ELSE IF Lower(q[counter]) = "from"
  THEN [status |-> "break", columns |-> cols, rest |-> Drop(q, counter), bad |-> ""]
  ELSE LET tok == StripComma(q[counter])
       IN IF ~InSeq(tok, columns)
          THEN [status |-> "unknown", columns |-> cols, rest |-> q, bad |-> tok]
          ELSE ScanColumns(q, counter + 1, Append(cols, tok))

\* lines 161-179: the column list and what is left of the query after it
ResolveColumns(q) ==
  IF q[1] = "*"
  THEN [status |-> "star", columns |-> columns, rest |-> Drop(q, 2), bad |-> ""]
  ELSE ScanColumns(q, 1, <<>>)

RowStyle(f) ==
  IF Contains(f["type"], "directory") THEN "bold blue"
  ELSE IF Contains(f["type"], "file") THEN "bold green"
  ELSE "bold yellow"

\* the table with its cells taken in schema order (for x in self.columns if x in columns)
BuildTable_schema_order(directory, cols, fs) ==
  Only({ TableItem(directory,
                   <<"">> \o [k \in 1..Len(cols) |-> Upper(cols[k])],
                   [i \in 1..Len(fs) |-> <<ToStr(i - 1)>> \o [k \in 1..Len(ordered) |-> fs[i][ordered[k]]]],
                   [i \in 1..Len(fs) |-> IF Contains(fs[i]["type"], "directory") THEN "bold blue"
                                          ELSE IF Contains(fs[i]["type"], "file") THEN "bold green"
                                          ELSE "bold yellow"])
         : ordered \in {SelectSeq(columns, LAMBDA x : InSeq(x, cols))} })

\* lines 193-209: the table handed to the renderer
BuildTable(directory, cols, fs) ==
  TableItem(directory,
            <<"">> \o [k \in 1..Len(cols) |-> Upper(cols[k])],
            [i \in 1..Len(fs) |-> <<ToStr(i - 1)>> \o [k \in 1..Len(cols) |-> fs[i][cols[k]]]],
            [i \in 1..Len(fs) |-> RowStyle(fs[i])])

\* lines 200-213: sort, the empty check, the table and the summary
SelectRender(directory, cols, fs, log) ==
  IF Len(fs) = 0 THEN Result("False", fs, <<>>, log, "")
  ELSE Result("None", fs,
              <<BuildTable(directory, cols, fs), Line(RowsInSetMsg(Len(fs))), Line("")>>,
              log, "")

\* lines 198-200: sort_data is handed whatever get_files returned
SelectListed(directory, cols, got) ==
  IF got.ret = "raise" THEN got
  ELSE IF got.ret = "False"
  THEN Result("raise", <<>>, got.out, got.fslog, BoolNotIterableMsg)
  ELSE Only({ SelectRender(directory, cols, fs, got.fslog) :
              fs \in {sort_data(got.files, "name", FALSE)} })

\* lines 181-198: the directory is the first token left after the column scan
SelectResolved(res, w) ==
  IF res.status = "unknown"
  THEN Result("False", <<>>, <<Line(UnknownColumnMsg(res.bad))>>, <<>>, "")
  ELSE IF Len(res.rest) = 0
  THEN Result("False", <<>>, <<Line(MissingPathMsg)>>, <<>>, "")
  ELSE Only({ SelectListed(res.rest[1], res.columns, got) :
              got \in {get_files(res.rest[1], w)} })

select(q, w) ==
  IF Len(q) = 0 THEN Result("raise", <<>>, <<>>, <<>>, IndexErrorMsg)
  ELSE Only({ SelectResolved(res, w) : res \in {ResolveColumns(q)} })

\* insert, update, delete: `pass`
noop(q, w) == Result("None", <<>>, <<>>, <<>>, "")

(***************************************************************************)
(* Prompt.command and Prompt.execute.                                      *)
(***************************************************************************)
help ==
  TableItem("", <<"Commands", "Description">>,
            [i \in 1..Len(commands) |-> commands[i]], [i \in 1..Len(commands) |-> ""])

\* what execute leaves behind: tokens is the split query (empty for a command), raised is the str of an exception that leaves
\* execute ("" when it returns), exit is TRUE when sys.exit was called
Outcome(q, o, log, fs, h, raised, exit) ==
  [tokens |-> q, out |-> o, fslog |-> log, files |-> fs, handler |-> h, raised |-> raised,
   exit |-> exit]

command(text) ==
  IF text = "help" THEN Outcome(<<>>, <<help>>, <<>>, <<>>, "help", "", FALSE)
  ELSE IF text = "exit" THEN Outcome(<<>>, <<Line("Goodbye.")>>, <<>>, <<>>, "exit", "", TRUE)
  ELSE Outcome(<<>>, <<>>, <<>>, <<>>, "clear", "", FALSE)

\* lines 93-98: try ... except Exception as e: print(e)
Caught(q, statement, r) ==
  Outcome(q, IF r.ret = "raise" THEN Append(r.out, Line(r.exc)) ELSE r.out,
          r.fslog, r.files, statement, "", FALSE)

\* self.statements[statement](query[1:])
Dispatch(q, statement, w) ==
  Only({ Caught(q, statement, r) :
         r \in {IF statement = "select" THEN select(Drop(q, 1), w) ELSE noop(Drop(q, 1), w)} })

\* execute reporting the lower-cased statement instead of query[0]
ExecuteTokens_lowercased(q, w) ==
  IF Len(q) = 0 THEN Outcome(q, <<>>, <<>>, <<>>, "none", IndexErrorMsg, FALSE)
  ELSE IF Lower(q[1]) \in statements
  THEN Dispatch(q, Lower(q[1]), w)
  ELSE Outcome(q, <<Line(InvalidStatementMsg(Lower(q[1])))>>, <<>>, <<>>, "none", "", FALSE)

\* lines 88-101, on the token list
ExecuteTokens(q, w) ==
  IF Len(q) = 0 THEN Outcome(q, <<>>, <<>>, <<>>, "none", IndexErrorMsg, FALSE)
  ELSE IF Lower(q[1]) \in statements
  THEN Dispatch(q, Lower(q[1]), w)
  ELSE Outcome(q, <<Line(InvalidStatementMsg(q[1]))>>, <<>>, <<>>, "none", "", FALSE)

execute(text, w) ==
  IF text \in CommandKeys THEN command(text)
  ELSE Only({ ExecuteTokens(q, w) : q \in {Split(text)} })

(***************************************************************************)
(* Prompt.prompt and the `while True` loop around it.                      *)
(***************************************************************************)
\* the physical lines typed at the prompt
Pieces ==
  {"", "help", "exit", "clear", "DROP table x", "insert x",
   "select", "SELECT *", "select name, type", "select type, Name, bogus",
   "select owner, name, owner from d/", "from", "FROM d"}

InputLines == Pieces \cup {p \o ";" : p \in Pieces}

\* the paths a statement touches exist or not independently of its text
WorldsFor(text) ==
  IF execute(text, MissingWorld).fslog = <<>> THEN {NoWorld} ELSE Worlds

\* line 77 and the return to the loop: self.execute(query[:-1])
RunStatement(q) ==
  \E text \in {DropLast(q)} : \E w \in WorldsFor(text) :
    \E r \in {execute(text, w)} :
       /\ pc' = IF r.raised # "" THEN "crashed" ELSE IF r.exit THEN "exited" ELSE "returned"
       /\ query' = ""
       /\ nlines' = 0
       /\ executed' = TRUE
       /\ stmt' = text
       /\ tokens' = r.tokens
       /\ out' = r.out
       /\ os' = w
       /\ fslog' = r.fslog
       /\ files' = r.files
       /\ handler' = r.handler
       /\ exc' = r.raised

\* the query so far does not end with ';': ask for another line
AwaitMore(q, n) ==
  /\ pc' = "continuation"
  /\ query' = q
  /\ nlines' = n
  /\ executed' = FALSE
  /\ stmt' = ""
  /\ tokens' = <<>>
  /\ out' = <<>>
  /\ os' = NoWorld
  /\ fslog' = <<>>
  /\ files' = <<>>
  /\ handler' = "none"
  /\ exc' = ""

\* lines 332-333: prompt() has returned and `while True` calls it again
LoopAgain ==
  /\ pc = "returned"
  /\ pc' = "prompt"
  /\ query' = ""
  /\ nlines' = 0
  /\ executed' = FALSE
  /\ stmt' = ""
  /\ tokens' = <<>>
  /\ out' = <<>>
  /\ os' = NoWorld
  /\ fslog' = <<>>
  /\ files' = <<>>
  /\ handler' = "none"
  /\ exc' = ""

\* query = input(start_prompt)
PromptInput(line) ==
  /\ pc = "prompt"
  /\ IF EndsWith(line, ";") THEN RunStatement(line) ELSE AwaitMore(line, 1)

\* query += ' ' + input(newline_prompt)
PromptContinue(line) ==
  /\ pc = "continuation"
  /\ nlines < MaxLines
  /\ LET q == query \o " " \o line
     IN IF EndsWith(q, ";") THEN RunStatement(q) ELSE AwaitMore(q, nlines + 1)

\* EOFError / KeyboardInterrupt at either input(): self.exit()
PromptEOF ==
  /\ pc \in {"prompt", "continuation"}
  /\ pc' = "exited"
  /\ query' = ""
  /\ nlines' = 0
  /\ executed' = FALSE
  /\ stmt' = ""
  /\ tokens' = <<>>
  /\ out' = <<Line("Goodbye.")>>
  /\ os' = NoWorld
  /\ fslog' = <<>>
  /\ files' = <<>>
  /\ handler' = "none"
  /\ exc' = ""

Init ==
  /\ pc = "prompt"
  /\ query = ""
  /\ nlines = 0
  /\ executed = FALSE
  /\ stmt = ""
  /\ tokens = <<>>
  /\ out = greet
  /\ os = NoWorld
  /\ fslog = <<>>
  /\ files = <<>>
  /\ handler = "none"
  /\ exc = ""

Next ==
  \/ \E line \in InputLines : PromptInput(line)
  \/ \E line \in InputLines : PromptContinue(line)
  \/ PromptEOF
  \/ LoopAgain

Spec == Init /\ [][Next]_vars

(***************************************************************************)
(* What the statements below speak of: the shape of the statement that     *)
(* execute was handed, read off its tokens, and the shape of its output.   *)
(***************************************************************************)
Verbs == {"select", "insert", "update", "delete"}

Schema ==
  {"name", "type", "created_on", "last_modified", "last_accessed",
   "file_size", "permissions", "owner", "group"}

IsSelect == Len(tokens) >= 1 /\ Len(tokens[1]) = 6 /\ Lower(tokens[1]) = "select"

StarList == IsSelect /\ Len(tokens) >= 2 /\ tokens[2] = "*"

ExplicitList == IsSelect /\ Len(tokens) >= 2 /\ tokens[2] # "*"

\* `select * from <path>`
StarFrom == StarList /\ Len(tokens) >= 4 /\ Lower(tokens[3]) = "from"

IsFrom(tok) == Len(tok) = 4 /\ Lower(tok) = "from"

FromPositions == { k \in 2..Len(tokens) : IsFrom(tokens[k]) }

\* the position of the first `from` token, 0 when there is none
FromAt ==
  Only({ IF P = {} THEN 0 ELSE CHOOSE k \in P : \A j \in P : k <= j : P \in {FromPositions} })

\* a token without its one trailing comma
Plain(tok) ==
  IF Len(tok) > 0 /\ SubSeq(tok, Len(tok), Len(tok)) = "," THEN SubSeq(tok, 1, Len(tok) - 1) ELSE tok

\* the tokens of an explicit column list: those before the first `from`
ListedColumns ==
  Only({ [k \in 1..((IF f = 0 THEN Len(tokens) ELSE f - 1) - 1) |-> Plain(tokens[k + 1])]
         : f \in {FromAt} })

\* the positions of a column list that hold no schema name
BadIn(cols) == { k \in 1..Len(cols) : cols[k] \notin Schema }

\* the first token of a column list that is no schema name
FirstBadIn(cols) ==
  Only({ cols[CHOOSE k \in bad : \A j \in bad : k <= j] : bad \in {BadIn(cols)} })

BadColumns == BadIn(ListedColumns)

\* a select that names no target path
NoTargetPath ==
  /\ IsSelect
  /\ \/ Len(tokens) = 1
     \/ StarList /\ Len(tokens) <= 3
     \/ ExplicitList /\ BadColumns = {} /\ (FromAt = 0 \/ FromAt = Len(tokens))

IsDiagnostic(item) ==
  item.kind = "line" /\ Len(item.text) >= 6 /\ SubSeq(item.text, 1, 6) = "ERROR "

NoTable == \A i \in 1..Len(out) : out[i].kind # "table"

NoSummary == \A i \in 1..Len(out) : ~Contains(out[i].text, "rows in set")

StatFailed(e) == e.stat # "ok"

\* C1: no statement ends the session except `exit`: execute returns and the
\* loop goes on to the next prompt
C1_NoErrorIsFatal ==
  executed => (pc = "returned" \/ (pc = "exited" /\ stmt = "exit"))

\* C2: a statement that fails with a user-facing error prints that one
\* diagnostic line and nothing else
C2_SingleDiagnosticLine ==
  (executed /\ \E i \in 1..Len(out) : IsDiagnostic(out[i]))
    => (Len(out) = 1 /\ IsDiagnostic(out[1]))

\* C3: `select * from <path>` on a path that does not exist reports the 1146
\* diagnostic for that path, and no statement on a missing path renders a
\* table or a row-count line
C3_MissingPathReported ==
  (executed /\ os.kind = "missing")
    => /\ NoTable
       /\ NoSummary
       /\ StarFrom => (Len(out) >= 1 /\ out[1] = Line(PathNotFoundMsg(tokens[4])))

C3_Witness == executed /\ os.kind = "missing" /\ StarFrom /\ pc = "returned"

\* C4: an explicit column list with a token outside the schema yields the 1054
\* diagnostic for the first such token, as typed, and touches no path and
\* renders nothing
C4_UnknownColumnNoAccess ==
  (executed /\ ExplicitList)
    => \A cols \in {ListedColumns} :
         BadIn(cols) # {}
           => /\ out = <<Line(UnknownColumnMsg(FirstBadIn(cols)))>>
              /\ fslog = <<>>
              /\ os = NoWorld
              /\ files = <<>>

C4_Witness ==
  /\ executed /\ ExplicitList /\ FromAt # 0 /\ Len(tokens) > FromAt
  /\ \E cols \in {ListedColumns} :
       /\ Cardinality(BadIn(cols)) >= 2
       /\ 1 \notin BadIn(cols)
       /\ FirstBadIn(cols) # Lower(FirstBadIn(cols))

\* C5: a select that names no target path fails with exactly the missing
\* directory / path diagnostic and touches no path
C5_MissingPathDiagnostic ==
  (executed /\ NoTargetPath) => (out = <<Line(MissingPathMsg)>> /\ fslog = <<>>)

\* C6: `select * from d` on a non-empty directory yields one record per child,
\* ascending by name, and the summary line carries that count, whatever the
\* stat of an entry does
C6_OneRecordPerChild ==
  (executed /\ StarFrom /\ os.kind = "dir" /\ Len(os.entries) > 0)
    => /\ Len(files) = Len(os.entries)
       /\ \A k \in 1..Len(os.entries) :
            Cardinality({ i \in 1..Len(files) : files[i].name = os.entries[k].name }) = 1
       /\ \A i, j \in 1..Len(files) : i < j => ~StrLess(files[j].name, files[i].name)
       /\ \E i \in 1..Len(out) : out[i] = Line(RowsInSetMsg(Len(os.entries)))

\* the listing ran to its end: no stat raised anything but FileNotFoundError
ListingCompleted ==
  os.kind = "dir" /\ Len(os.entries) > 0 /\ \A k \in 1..Len(os.entries) : os.entries[k].stat # "EACCES"

\* C7: a non-empty column list drawn from the schema is projected as given: one
\* table column per listed token after the index column, in list order with
\* repeats, and each row holds its record's values for those fields
C7_ProjectionInOrder ==
  (executed /\ ListingCompleted /\ ExplicitList)
    => \A cols \in {ListedColumns} :
         (Len(cols) > 0 /\ BadIn(cols) = {} /\ FromAt # 0 /\ Len(tokens) > FromAt)
           => /\ Len(out) >= 1 /\ out[1].kind = "table"
              /\ out[1].header = <<"">> \o [k \in 1..Len(cols) |-> Upper(cols[k])]
              /\ Len(out[1].rows) = Len(os.entries)
              /\ Len(files) = Len(os.entries)
              /\ \A i \in 1..Len(files) :
                   out[1].rows[i] = <<ToStr(i - 1)>> \o [k \in 1..Len(cols) |-> files[i][cols[k]]]

C7_Witness ==
  /\ executed /\ ListingCompleted /\ ExplicitList /\ FromAt > 2 /\ Len(tokens) > FromAt
  /\ Len(os.entries) >= 2
  /\ \E cols \in {ListedColumns} :
       /\ BadIn(cols) = {}
       /\ \E j, k \in 1..Len(cols) : j < k /\ cols[j] = "owner" /\ cols[k] = "name"
       /\ \E j, k \in 1..Len(cols) : j < k /\ cols[j] = cols[k]

\* C8: a line that is no command and whose first token is no statement verb
\* yields the invalid-statement diagnostic with the token as typed, runs no
\* handler and raises nothing
C8_InvalidStatement ==
  (executed /\ stmt \notin {"help", "exit", "clear"} /\ Len(tokens) >= 1
     /\ Lower(tokens[1]) \notin Verbs)
    => /\ out = <<Line(InvalidStatementMsg(tokens[1]))>>
       /\ handler = "none"
       /\ fslog = <<>>
       /\ exc = ""
       /\ pc = "returned"

C8_Witness ==
  /\ executed /\ stmt \notin {"help", "exit", "clear"} /\ Len(tokens) >= 2
  /\ Lower(tokens[1]) \notin Verbs
  /\ tokens[1] # Lower(tokens[1])

\* C9: every entry of a listed directory gets a record with all nine fields,
\* and an entry whose stat fails gets its name and type and "Unknown" elsewhere,
\* without the listing being aborted
C9_StatFailureTolerated ==
  (executed /\ handler = "select" /\ os.kind = "dir")
    => \A k \in 1..Len(os.entries) :
         \E i \in 1..Len(files) :
           /\ files[i].name = os.entries[k].name
           /\ DOMAIN files[i] = Schema
           /\ StatFailed(os.entries[k]) =>
                /\ files[i]["type"] = EntryType(os.entries[k])
                /\ \A c \in Schema \ {"name", "type"} : files[i][c] = "Unknown"

\* C10: with an explicit column list, the directory handed to get_files is the
\* token right after the `from` boundary, never a token of the column list
C10_DirectoryAfterFrom ==
  (executed /\ ExplicitList /\ fslog # <<>>)
    => /\ FromAt # 0
       /\ Len(tokens) > FromAt
       /\ fslog[1][2] = tokens[FromAt + 1]

====
